---- MODULE Spec2Model ----
(***************************************************************************)
(* James' Cafe - CLI ordering system (src/JamesCafe/JamesCafe.cpp).        *)
(*                                                                         *)
(* The program is one sequential loop over standard input.  Each action of *)
(* this module is one blocking read together with all the code that runs   *)
(* until the next read; pc names the prompt the program is waiting at.     *)
(* Prices are whole pesos held in doubles; every amount the program can    *)
(* form is an integer far below 2^53, so double arithmetic is exact and    *)
(* amounts are modelled as integers.                                       *)
(***************************************************************************)
EXTENDS Integers, Sequences, FiniteSets, TLC

(* ------------------------------ bounds --------------------------------- *)

\* The length of a run: customers started plus order lines committed, over
\* the whole day (both loops of main are unbounded).
MaxWork == 4

\* Customers started in a day on which the menu is bought out (SpecSellOut).
MaxSellOutCustomers == 2

(* ------------------------- the hardcoded catalog ----------------------- *)

Catalog ==
  << [name |-> "Cappuccino",            price |-> 140, qty |-> 20, category |-> "Beverages"],
     [name |-> "Latte",                 price |-> 150, qty |-> 20, category |-> "Beverages"],
     [name |-> "Iced Americano",        price |-> 120, qty |-> 20, category |-> "Beverages"],
     [name |-> "Chocolate Milkshake",   price |-> 190, qty |-> 20, category |-> "Beverages"],
     [name |-> "Blueberry Muffin",      price |-> 75,  qty |-> 20, category |-> "Snacks"],
     [name |-> "Garlic Parmesan Toast", price |-> 95,  qty |-> 20, category |-> "Snacks"],
     [name |-> "Glazed Donut Holes",    price |-> 100, qty |-> 20, category |-> "Snacks"],
     [name |-> "Chicken Wrap",          price |-> 180, qty |-> 20, category |-> "Meals"],
     [name |-> "Garlic Rice + Burger",  price |-> 220, qty |-> 20, category |-> "Meals"],
     [name |-> "Chicken Alfredo Pasta", price |-> 275, qty |-> 20, category |-> "Meals"],
     [name |-> "Chocolate Cake Slice",  price |-> 130, qty |-> 20, category |-> "Desserts"],
     [name |-> "Fruit Parfait",         price |-> 110, qty |-> 20, category |-> "Desserts"],
     [name |-> "Tiramisu",              price |-> 270, qty |-> 20, category |-> "Desserts"] >>

Items == 1..Len(Catalog)

\* Item::Item : sold starts at 0, qty at the constructor argument
InitialMenu == [i \in Items |-> [qty |-> Catalog[i].qty, sold |-> 0]]

\* the switch over catChoice; any other number gives the empty string
CategoryOf(catChoice) ==
  CASE catChoice = 1 -> "Beverages"
    [] catChoice = 2 -> "Snacks"
    [] catChoice = 3 -> "Meals"
    [] catChoice = 4 -> "Desserts"
    [] OTHER -> ""

Categories == {"Beverages", "Snacks", "Meals", "Desserts"}

(* ------------------------------ state ---------------------------------- *)

VARIABLES
  menu,             \* vector<Item> menu : per item the live qty and sold
  allOrders,        \* vector<Order> allOrders
  customersServed,  \* int customersServed
  order,            \* the Order of the customer being served
  counter,          \* static counter of generateReceiptNumber
  category,         \* the category chosen at the last category prompt
  available,        \* vector<Item*> available, as indices into menu
  chosen,           \* Item* chosen, as an index into menu (0: none)
  pc,               \* the prompt the program is blocked at
  out,              \* the last message written to standard output
  summary,          \* the figures printed by the daily summary
  eof               \* standard input has reached end-of-input

vars == << menu, allOrders, customersServed, order, counter, category,
           available, chosen, pc, out, summary, eof >>

(* ------------------------- input parsing ------------------------------- *)

WS == {" ", "\t", "\n", "\r", "\f"}

\* readLineTrimmed on a line that was read: one trailing CR is dropped,
\* then whitespace is stripped from both ends.  Lines are sequences of
\* one-character strings.
readLineTrimmed_NoTrim(line) == line

readLineTrimmed(line) ==
  LET s == IF Len(line) > 0 /\ line[Len(line)] = "\r"
           THEN SubSeq(line, 1, Len(line) - 1) ELSE line
      nonWs == {k \in 1..Len(s) : s[k] \notin WS}
  IN  IF nonWs = {} THEN << >>
      ELSE LET start == CHOOSE k \in nonWs : \A j \in nonWs : k <= j
               end   == CHOOSE k \in nonWs : \A j \in nonWs : k >= j
           IN  SubSeq(s, start, end)

\* std::tolower over the words the model types at a yes/no prompt
ToLower(w) ==
  CASE w = "Y"   -> "y"
    [] w = "YES" -> "yes"
    [] w = "Yes" -> "yes"
    [] w = "N"   -> "n"
    [] w = "NO"  -> "no"
    [] w = "No"  -> "no"
    [] OTHER -> w

\* variant: whatever is not a yes counts as a no
readYesNo_Lenient(line) ==
  LET l == ToLower(line)
  IN  IF l = "y" \/ l = "yes" THEN "yes" ELSE "no"

\* readYesNo, one iteration on a line that was read:
\* "yes" / "no" is returned, "retry" loops with "Please answer Y or N."
readYesNo(line) ==
  LET l == ToLower(line)
  IN  IF l = "y" \/ l = "yes" THEN "yes"
      ELSE IF l = "n" \/ l = "no" THEN "no"
      ELSE "retry"

\* readIntInRange, one iteration on a line that was read.  A line is
\* [num |-> whether ss >> x && ss.eof() succeeds, x |-> the parsed value].
\* "ok" returns x; "range" and "invalid" print a message and loop.
readIntInRange(line, minVal, maxVal) ==
  IF line.num
  THEN IF line.x < minVal \/ line.x > maxVal THEN "range" ELSE "ok"
  ELSE "invalid"

Digits == {"0", "1", "2", "3", "4", "5", "6", "7", "8", "9"}

DigitValue(c) ==
  CASE c = "0" -> 0 [] c = "1" -> 1 [] c = "2" -> 2 [] c = "3" -> 3
    [] c = "4" -> 4 [] c = "5" -> 5 [] c = "6" -> 6 [] c = "7" -> 7
    [] c = "8" -> 8 [] c = "9" -> 9

RECURSIVE decimal(_, _, _)
decimal(s, k, acc) ==
  IF k > Len(s) THEN acc ELSE decimal(s, k + 1, 10 * acc + DigitValue(s[k]))

\* stringstream ss(line); int x; ss >> x && ss.eof(), on a line of characters:
\* one trailing CR is dropped first; >> skips leading whitespace, takes an
\* optional sign and then digits; eof() holds only if the digits run to the
\* end of the line.  The result is a line as readIntInRange takes it.
parseInt(line) ==
  LET s == IF Len(line) > 0 /\ line[Len(line)] = "\r"
           THEN SubSeq(line, 1, Len(line) - 1) ELSE line
      nonWs == {k \in 1..Len(s) : s[k] \notin WS}
  IN  IF nonWs = {} THEN [num |-> FALSE, x |-> 0]
      ELSE LET first == CHOOSE k \in nonWs : \A j \in nonWs : k <= j
               signed == s[first] \in {"+", "-"}
               start == IF signed THEN first + 1 ELSE first
               body == SubSeq(s, start, Len(s))
           IN  IF body # << >> /\ \A k \in 1..Len(body) : body[k] \in Digits
               THEN [num |-> TRUE,
                     x |-> IF s[first] = "-" THEN 0 - decimal(body, 1, 0)
                                             ELSE decimal(body, 1, 0)]
               ELSE [num |-> FALSE, x |-> 0]

(* ------------------------- catalog queries ----------------------------- *)

\* variant: the category comparison is left out of the loop
isCategorySoldOut_AnyCategory(m, cat) ==
  ~ \E i \in Items : m[i].qty > 0

isCategorySoldOut(m, cat) ==
  ~ \E i \in Items : Catalog[i].category = cat /\ m[i].qty > 0

RECURSIVE listFrom(_, _, _)
listFrom(m, cat, i) ==
  IF i > Len(Catalog) THEN << >>
  ELSE IF Catalog[i].category = cat /\ m[i].qty > 0
       THEN << i >> \o listFrom(m, cat, i + 1)
       ELSE listFrom(m, cat, i + 1)

\* variant: the test qty > 0 is left out
RECURSIVE listFrom_All(_, _, _)
listFrom_All(m, cat, i) ==
  IF i > Len(Catalog) THEN << >>
  ELSE IF Catalog[i].category = cat
       THEN << i >> \o listFrom_All(m, cat, i + 1)
       ELSE listFrom_All(m, cat, i + 1)

listAvailableInCategory_All(m, cat) == listFrom_All(m, cat, 1)

\* the items of cat with qty > 0, in catalog order
listAvailableInCategory(m, cat) == listFrom(m, cat, 1)

(* ------------------------- orders and totals --------------------------- *)

\* variant: the quantity is left out of the product
subtotal_PriceOnly(l) == Catalog[l.item].price

\* OrderLine::subtotal ; item is never null in this program
subtotal(l) == Catalog[l.item].price * l.quantity

RECURSIVE sumLines(_, _)
sumLines(lines, k) ==
  IF k > Len(lines) THEN 0 ELSE subtotal(lines[k]) + sumLines(lines, k + 1)

\* Order::total
total(o) == sumLines(o.lines, 1)

\* (millis % 1000000000ULL) + (++counter), with the counter before the call
RECEIPT_MOD == 1000000000

\* variant: the counter is not static, so every call adds 1
generateReceiptNumber_NoStatic(millis, cnt) == (millis % RECEIPT_MOD) + 1

generateReceiptNumber(millis, cnt) == (millis % RECEIPT_MOD) + (cnt + 1)

NoOrder == [customerName |-> << >>, dineOption |-> "", lines |-> << >>,
            receiptNo |-> 0, millis |-> 0]

(* ------------------------- the daily summary --------------------------- *)

RECURSIVE revenueFrom(_, _)
revenueFrom(orders, k) ==
  IF k > Len(orders) THEN 0 ELSE total(orders[k]) + revenueFrom(orders, k + 1)

\* variant: the remaining stock is added up in place of the sold count
RECURSIVE soldFrom_Remaining(_, _)
soldFrom_Remaining(m, i) ==
  IF i > Len(Catalog) THEN 0 ELSE m[i].qty + soldFrom_Remaining(m, i + 1)

RECURSIVE soldFrom(_, _)
soldFrom(m, i) ==
  IF i > Len(Catalog) THEN 0 ELSE m[i].sold + soldFrom(m, i + 1)

\* variant: >= in place of >, so the last of equals wins
RECURSIVE bestFrom_LastMax(_, _, _)
bestFrom_LastMax(m, i, best) ==
  IF i > Len(Catalog) THEN best
  ELSE IF best = 0 \/ m[i].sold >= m[best].sold
       THEN bestFrom_LastMax(m, i + 1, i)
       ELSE bestFrom_LastMax(m, i + 1, best)

\* for (auto& it : menu) if (!best || it.sold > best->sold) best = &it;
\* best is an index, 0 for nullptr
RECURSIVE bestFrom(_, _, _)
bestFrom(m, i, best) ==
  IF i > Len(Catalog) THEN best
  ELSE IF best = 0 \/ m[i].sold > m[best].sold
       THEN bestFrom(m, i + 1, i)
       ELSE bestFrom(m, i + 1, best)

bestSeller(m) == bestFrom(m, 1, 0)

NoSummary == [printed |-> FALSE, customersServed |-> 0, totalRevenue |-> 0,
              totalItemsSold |-> 0, bestSeller |-> 0]

dailySummary(m, orders, served) ==
  LET best == bestSeller(m)
  IN  [printed |-> TRUE,
       customersServed |-> served,
       totalRevenue |-> revenueFrom(orders, 1),
       totalItemsSold |-> soldFrom(m, 1),
       \* "Best seller: ..." only if best && best->sold > 0, else "No sales recorded."
       bestSeller |-> IF best # 0 /\ m[best].sold > 0 THEN best ELSE 0]

(* ------------------------- pieces of main ------------------------------ *)

\* the message last written, with the number it carries (0 when none)
Msg(m, v) == [msg |-> m, val |-> v]

\* variant: the order is constructed but not numbered
newOrder_Unnumbered(millis, cnt) ==
  [customerName |-> << >>, dineOption |-> "", lines |-> << >>,
   receiptNo |-> 0, millis |-> millis]

\* Order order; order.receiptNo = generateReceiptNumber();
newOrder(millis, cnt) ==
  [customerName |-> << >>, dineOption |-> "", lines |-> << >>,
   receiptNo |-> generateReceiptNumber(millis, cnt),
   millis |-> millis]    \* millis: the clock reading used, kept for reference

\* variant: the line is inserted at the front
addLine_Front(o, item, qty) ==
  [o EXCEPT !.lines = << [item |-> item, quantity |-> qty] >> \o @]

\* order.lines.push_back(line)
addLine(o, item, qty) ==
  [o EXCEPT !.lines = Append(@, [item |-> item, quantity |-> qty])]

\* variant: the sold counter is not updated
commitLine_NoSold(m, item, qty) ==
  [m EXCEPT ![item] = [qty |-> @.qty - qty, sold |-> @.sold]]

\* variant: the two signs are exchanged
commitLine_Restock(m, item, qty) ==
  [m EXCEPT ![item] = [qty |-> @.qty + qty, sold |-> @.sold - qty]]

\* chosen->qty -= qty; chosen->sold += qty;
commitLine(m, item, qty) ==
  [m EXCEPT ![item] = [qty |-> @.qty - qty, sold |-> @.sold + qty]]

\* variant: the bound is the stock the item started the day with
quantityMax_Initial(m, item) == Catalog[item].qty

\* the upper bound handed to readIntInRange("Enter quantity: ", 1, chosen->qty)
quantityMax(m, item) == m[item].qty

\* variant: neither the sold-out check nor the empty-list check is made
categoryOutcome_NoCheck(m, cat) == "ItemList"

\* what choosing a category with items leads to:
\*   "SoldOut"          "Sorry, <category> is completely sold out for today."
\*   "NoAvailableItems" the list came back empty: "(No available items in ...)"
\*   "ItemList"         the items are listed and the item prompt follows
categoryOutcome(m, cat) ==
  IF isCategorySoldOut(m, cat) THEN "SoldOut"
  ELSE IF listAvailableInCategory(m, cat) = << >> THEN "NoAvailableItems"
  ELSE "ItemList"

\* variant: the emptiness test is missing, every order is finalized
isCancelled_Never(o) == FALSE

\* if (order.lines.empty()) cancel; else { printReceipt; push_back; customersServed++ }
isCancelled(o) == o.lines = << >>

linesInHistory(orders) ==
  LET RECURSIVE cnt(_)
      cnt(k) == IF k > Len(orders) THEN 0 ELSE Len(orders[k].lines) + cnt(k + 1)
  IN  cnt(1)

\* the order lines committed so far in the run
committed == linesInHistory(allOrders) + Len(order.lines)

\* customers started (one receipt number each) plus lines committed
work == counter + committed

\* variant: ++customersServed stands outside the if
EndSelection_CountsCancelled ==
  /\ IF isCancelled(order)
     THEN /\ out' = Msg("Cancelled", 0)
          /\ UNCHANGED allOrders
     ELSE /\ out' = Msg("Receipt", total(order))
          /\ allOrders' = Append(allOrders, order)
  /\ customersServed' = customersServed + 1
  /\ pc' = "Next"
  /\ category' = ""
  /\ available' = << >>
  /\ chosen' = 0
  /\ UNCHANGED << menu, order, counter, summary >>

\* variant: a cancelled transaction leaves the day loop and prints the summary
EndSelection_CancelEndsDay ==
  /\ IF isCancelled(order)
     THEN /\ out' = Msg("Summary", 0)
          /\ pc' = "Done"
          /\ summary' = dailySummary(menu, allOrders, customersServed)
          /\ UNCHANGED << allOrders, customersServed >>
     ELSE /\ out' = Msg("Receipt", total(order))
          /\ pc' = "Next"
          /\ allOrders' = Append(allOrders, order)
          /\ customersServed' = customersServed + 1
          /\ UNCHANGED summary
  /\ category' = ""
  /\ available' = << >>
  /\ chosen' = 0
  /\ UNCHANGED << menu, order, counter >>

\* the code after the selection loop: the order is handed to the day session
EndSelection ==
  /\ IF isCancelled(order)
     THEN /\ out' = Msg("Cancelled", 0)
          /\ UNCHANGED << allOrders, customersServed >>
     ELSE /\ out' = Msg("Receipt", total(order))
          /\ allOrders' = Append(allOrders, order)
          /\ customersServed' = customersServed + 1
  /\ pc' = "Next"
  /\ category' = ""
  /\ available' = << >>
  /\ chosen' = 0
  /\ UNCHANGED << menu, order, counter, summary >>

\* continue / next iteration of the selection loop: the locals go out of scope
BackToCategory(message) ==
  /\ pc' = "Category"
  /\ out' = message
  /\ category' = ""
  /\ available' = << >>
  /\ chosen' = 0

(* ------------------------------ inputs --------------------------------- *)

\* readings of system_clock in milliseconds; the clock is not steady, so
\* each reading is any of them
ClockReadings == {RECEIPT_MOD, RECEIPT_MOD + 1}

NameLines == { << >>, << " " >>, << "\r" >>, << "A" >>,
               << " ", "A", "\t" >>, << "A", "\r" >> }

YesNoLines == {"y", "YES", "n", "No", "maybe", ""}

NotANumber == [num |-> FALSE, x |-> 0]

Number(n) == [num |-> TRUE, x |-> n]

IntLines(S) == {NotANumber} \cup {Number(n) : n \in S}

\* What is typed at the three numeric prompts: the values on both sides of
\* each end of the accepted range, and a line that is no number.  At the
\* category prompt these are the first and the last category; at the item
\* prompt the first and the last listed item; at the quantity prompt 3
\* units and all that is left.
\* the ways a digit d is typed, well and badly
TypedLines(d) == { << d >>, << " ", d >>, << d, "\r" >>, << "+", d >>, << "0", d >>,
                   << "-", d >>, << d, " " >>, << d, "x" >>, << d, ".", "5" >>,
                   << "x" >>, << " " >>, << >> }

Typed(d) == {parseInt(l) : l \in TypedLines(d)}

CategoryLines == IntLines({-1, 0, 1, 4, 5}) \cup Typed("1")

ItemLines(n) == IntLines({-1, 0, 1, n, n + 1}) \cup Typed("1")

QuantityLines(left) == IntLines({-1, 0, 3, left, left + 1}) \cup Typed("3")

(* ------------------------------ actions -------------------------------- *)

Init ==
  /\ menu = InitialMenu
  /\ allOrders = << >>
  /\ customersServed = 0
  /\ order = NoOrder
  /\ counter = 0
  /\ category = ""
  /\ available = << >>
  /\ chosen = 0
  /\ pc = "NewCustomer"
  /\ out = Msg("Backstory", 0)
  /\ summary = NoSummary
  /\ eof = FALSE

\* "---- New Customer ----": the order is constructed and numbered
NewCustomer(millis) ==
  /\ pc = "NewCustomer"
  /\ UNCHANGED eof
  /\ order' = newOrder(millis, counter)
  /\ counter' = counter + 1
  /\ pc' = "Name"
  /\ out' = Msg("NewCustomer", 0)
  /\ UNCHANGED << menu, allOrders, customersServed, category, available,
                  chosen, summary >>

\* "Enter customer name: "
EnterName(line) ==
  /\ pc = "Name"
  /\ ~ eof
  /\ UNCHANGED eof
  /\ LET name == readLineTrimmed(line)
     IN  IF name = << >>
         THEN /\ out' = Msg("NameEmpty", 0)
              /\ UNCHANGED << order, pc >>
         ELSE /\ order' = [order EXCEPT !.customerName = name]
              /\ pc' = "Dine"
              /\ out' = Msg("AskDine", 0)
  /\ UNCHANGED << menu, allOrders, customersServed, counter, category,
                  available, chosen, summary >>

\* "Dine option - Eat in? or Take-Out (Y/N): "
AnswerDine(line) ==
  /\ pc = "Dine"
  /\ ~ eof
  /\ UNCHANGED eof
  /\ LET a == readYesNo(line)
     IN  IF a = "retry"
         THEN /\ out' = Msg("AnswerYN", 0)
              /\ UNCHANGED << order, pc >>
         ELSE /\ order' = [order EXCEPT
                             !.dineOption = IF a = "yes" THEN "Eat-In" ELSE "Take-Out"]
              /\ pc' = "Category"
              /\ out' = Msg("Categories", 0)
  /\ UNCHANGED << menu, allOrders, customersServed, counter, category,
                  available, chosen, summary >>

\* "Choose category (0-4): "
ChooseCategory(line) ==
  /\ pc = "Category"
  /\ ~ eof
  /\ UNCHANGED eof
  /\ LET r == readIntInRange(line, 0, 4)
         cat == CategoryOf(line.x)
     IN  IF r # "ok"
         THEN /\ out' = Msg(IF r = "range" THEN "OutOfRange" ELSE "InvalidNumber", 0)
              /\ UNCHANGED << menu, allOrders, customersServed, order, counter,
                              category, available, chosen, pc, summary >>
         ELSE IF line.x = 0
         THEN EndSelection
         ELSE IF cat = ""
         THEN /\ BackToCategory(Msg("Categories", 0))
              /\ UNCHANGED << menu, allOrders, customersServed, order, counter, summary >>
         ELSE IF categoryOutcome(menu, cat) # "ItemList"
         THEN /\ BackToCategory(Msg(categoryOutcome(menu, cat), line.x))
              /\ UNCHANGED << menu, allOrders, customersServed, order, counter, summary >>
         ELSE /\ category' = cat
              /\ available' = listAvailableInCategory(menu, cat)
              /\ pc' = "Item"
              /\ out' = Msg("ItemList", line.x)
              /\ UNCHANGED << menu, allOrders, customersServed, order, counter,
                              chosen, summary >>

\* "Select item number (0 to go back): "
\* room: the run may still grow by an order line
ChooseItemIf(line, room) ==
  /\ pc = "Item"
  /\ ~ eof
  /\ UNCHANGED eof
  /\ LET r == readIntInRange(line, 0, Len(available))
     IN  IF r # "ok"
         THEN /\ out' = Msg(IF r = "range" THEN "OutOfRange" ELSE "InvalidNumber", 0)
              /\ UNCHANGED << category, available, chosen, pc >>
         ELSE IF line.x = 0
         THEN BackToCategory(Msg("Categories", 0))
         ELSE /\ room
              /\ chosen' = available[line.x]
              /\ pc' = "Quantity"
              /\ out' = Msg("AskQuantity", 0)
              /\ UNCHANGED << category, available >>
  /\ UNCHANGED << menu, allOrders, customersServed, order, counter, summary >>

ChooseItem(line) == ChooseItemIf(line, work < MaxWork)

\* "Enter quantity: "
EnterQuantity(line) ==
  /\ pc = "Quantity"
  /\ ~ eof
  /\ UNCHANGED eof
  /\ LET r == readIntInRange(line, 1, quantityMax(menu, chosen))
     IN  IF r # "ok"
         THEN /\ out' = Msg(IF r = "range" THEN "OutOfRange" ELSE "InvalidNumber", 0)
              /\ UNCHANGED << menu, order, pc >>
         ELSE /\ order' = addLine(order, chosen, line.x)
              /\ menu' = commitLine(menu, chosen, line.x)
              /\ pc' = "AddMore"
              /\ out' = Msg("Added", line.x)
  /\ UNCHANGED << allOrders, customersServed, counter, category, available,
                  chosen, summary >>

\* variant: a no to "Add more items?" leaves the selection loop at once
AnswerAddMore_NoContinue(line) ==
  /\ pc = "AddMore"
  /\ ~ eof
  /\ UNCHANGED eof
  /\ LET a == readYesNo(line)
     IN  IF a = "retry"
         THEN /\ out' = Msg("AnswerYN", 0)
              /\ UNCHANGED << menu, allOrders, customersServed, order, counter,
                              category, available, chosen, pc, summary >>
         ELSE IF a = "yes"
         THEN /\ BackToCategory(Msg("Categories", 0))
              /\ UNCHANGED << menu, allOrders, customersServed, order, counter, summary >>
         ELSE EndSelection

\* "Add more items? (Y/N): "
AnswerAddMore(line) ==
  /\ pc = "AddMore"
  /\ ~ eof
  /\ UNCHANGED eof
  /\ LET a == readYesNo(line)
     IN  IF a = "retry"
         THEN /\ out' = Msg("AnswerYN", 0)
              /\ UNCHANGED << category, available, chosen, pc >>
         ELSE IF a = "yes"
         THEN BackToCategory(Msg("Categories", 0))
         ELSE /\ pc' = "Continue"
              /\ out' = Msg("AskContinue", 0)
              /\ UNCHANGED << category, available, chosen >>
  /\ UNCHANGED << menu, allOrders, customersServed, order, counter, summary >>

\* "Continue ordering (another category)? (Y/N): "
AnswerContinue(line) ==
  /\ pc = "Continue"
  /\ ~ eof
  /\ UNCHANGED eof
  /\ LET a == readYesNo(line)
     IN  IF a = "retry"
         THEN /\ out' = Msg("AnswerYN", 0)
              /\ UNCHANGED << menu, allOrders, customersServed, order, counter,
                              category, available, chosen, pc, summary >>
         ELSE IF a = "yes"
         THEN /\ BackToCategory(Msg("Categories", 0))
              /\ UNCHANGED << menu, allOrders, customersServed, order, counter, summary >>
         ELSE EndSelection

\* "Serve next customer? (Y/N): "
\* room: the run may still grow by a customer
AnswerNextIf(line, room) ==
  /\ pc = "Next"
  /\ ~ eof
  /\ UNCHANGED eof
  /\ LET a == readYesNo(line)
     IN  IF a = "retry"
         THEN /\ out' = Msg("AnswerYN", 0)
              /\ UNCHANGED << order, pc, summary >>
         ELSE IF a = "yes"
         THEN /\ room
              /\ pc' = "NewCustomer"
              /\ order' = NoOrder
              /\ out' = Msg("NextCustomer", 0)
              /\ UNCHANGED summary
         ELSE /\ pc' = "Done"
              /\ order' = NoOrder
              /\ summary' = dailySummary(menu, allOrders, customersServed)
              /\ out' = Msg("Summary", 0)
  /\ UNCHANGED << menu, allOrders, customersServed, counter, category,
                  available, chosen >>

AnswerNext(line) == AnswerNextIf(line, work < MaxWork)

\* the prompts, where the program blocks in getline
Prompts == {"Name", "Dine", "Category", "Item", "Quantity", "AddMore",
            "Continue", "Next"}

\* variant: end-of-input is taken as the end of the day
ReadEOF_Stops ==
  /\ pc \in Prompts
  /\ eof' = TRUE
  /\ pc' = "Done"
  /\ out' = Msg("Summary", 0)
  /\ summary' = dailySummary(menu, allOrders, customersServed)
  /\ UNCHANGED << menu, allOrders, customersServed, order, counter, category,
                  available, chosen >>

\* getline fails at end-of-input.  readIntInRange and readYesNo clear the
\* stream and go round their loop again; readLineTrimmed returns "", which
\* the name loop rejects as an empty name.  A stream at its end stays there,
\* so the read is retried for ever.
ReadEOF ==
  /\ pc \in Prompts
  /\ eof' = TRUE
  /\ out' = IF pc = "Name" THEN Msg("NameEmpty", 0) ELSE out
  /\ UNCHANGED << menu, allOrders, customersServed, order, counter, category,
                  available, chosen, pc, summary >>

Next ==
  \/ \E millis \in ClockReadings : NewCustomer(millis)
  \/ \E line \in NameLines : EnterName(line)
  \/ \E line \in YesNoLines : AnswerDine(line)
  \/ /\ pc = "Category"
     /\ \E line \in CategoryLines : ChooseCategory(line)
  \/ /\ pc = "Item"
     /\ \E line \in ItemLines(Len(available)) : ChooseItem(line)
  \/ /\ pc = "Quantity"
     /\ \E line \in QuantityLines(menu[chosen].qty) : EnterQuantity(line)
  \/ \E line \in YesNoLines : AnswerAddMore(line)
  \/ \E line \in YesNoLines : AnswerContinue(line)
  \/ \E line \in YesNoLines : AnswerNext(line)
  \/ ReadEOF

Spec == Init /\ [][Next]_vars

(* ----------------- a day on which the menu is bought out --------------- *)

\* The same program on the days where the customers buy the menu out in
\* catalogue order: at the category prompt they finish, take the first
\* category that has stock, or try one that is sold out; they take the
\* first listed item, and all that is left of it.  Such a day has at most
\* one order line per item, so only the customers are bounded.
firstInStock ==
  {n \in 1..4 : /\ ~ isCategorySoldOut(menu, CategoryOf(n))
                /\ \A k \in 1..(n - 1) : isCategorySoldOut(menu, CategoryOf(k))}

soldOutChoices == {n \in 1..4 : isCategorySoldOut(menu, CategoryOf(n))}

SellOutCategoryLines == IntLines({0} \cup firstInStock \cup soldOutChoices)

SellOutItemLines == IntLines({0, 1})

SellOutQuantityLines(left) == IntLines({0, left, left + 1})

SellOutYesNoLines == {"y", "n", "maybe"}

NextSellOut ==
  \/ NewCustomer(RECEIPT_MOD)
  \/ \E line \in {<< >>, << "A" >>} : EnterName(line)
  \/ \E line \in SellOutYesNoLines : AnswerDine(line)
  \/ /\ pc = "Category"
     /\ \E line \in SellOutCategoryLines : ChooseCategory(line)
  \/ /\ pc = "Item"
     /\ \E line \in SellOutItemLines : ChooseItemIf(line, TRUE)
  \/ /\ pc = "Quantity"
     /\ \E line \in SellOutQuantityLines(menu[chosen].qty) : EnterQuantity(line)
  \/ \E line \in SellOutYesNoLines : AnswerAddMore(line)
  \/ \E line \in SellOutYesNoLines : AnswerContinue(line)
  \/ \E line \in SellOutYesNoLines :
        AnswerNextIf(line, counter < MaxSellOutCustomers)

SpecSellOut == Init /\ [][NextSellOut]_vars

(* ======================== properties of the run ======================== *)

\* a step that commits an order line (the quantity prompt accepted a value)
CommitStep == pc = "Quantity" /\ pc' = "AddMore"

\* a step that ends a customer's selection flow
EndStep == pc \in {"Category", "Continue"} /\ pc' = "Next"

\* quantity x unit price over the lines of an order, summed from the last line
RECURSIVE LineSum(_)
LineSum(lines) ==
  IF lines = << >> THEN 0
  ELSE LineSum(SubSeq(lines, 1, Len(lines) - 1))
       + lines[Len(lines)].quantity * Catalog[lines[Len(lines)].item].price

RECURSIVE OrderSum(_)
OrderSum(orders) ==
  IF orders = << >> THEN 0
  ELSE OrderSum(SubSeq(orders, 1, Len(orders) - 1)) + LineSum(orders[Len(orders)].lines)

\* every item of the category has no stock left
AllZero(cat) == \A i \in Items : Catalog[i].category = cat => menu[i].qty = 0

(* C1. Stock conservation: for every menu item, in every reachable state,  *)
(* remaining stock + cumulative sold equals the item's initial stock (20). *)
C1_StockConservation ==
  \A i \in Items : /\ menu[i].qty + menu[i].sold = Catalog[i].qty
                   /\ Catalog[i].qty = 20

\* 3 + 3 Cappuccinos sold over two customers, 14 left
C1_Witness ==
  /\ menu[1] = [qty |-> 14, sold |-> 6]
  /\ Len(allOrders) = 1
  /\ Len(order.lines) = 1

(* C2. No oversell: every committed order line has 1 <= quantity <= the    *)
(* item's remaining stock immediately before the commit, and no item's     *)
(* remaining stock is ever negative.                                       *)
C2_NoOversell ==
  /\ [](\A i \in Items : menu[i].qty >= 0)
  /\ [][CommitStep =>
          LET l == order'.lines[Len(order'.lines)]
          IN  /\ Len(order'.lines) = Len(order.lines) + 1
              /\ 1 <= l.quantity
              /\ l.quantity <= menu[l.item].qty]_vars

\* the same item twice in one order, the second time for all that was left
C2_Witness ==
  /\ Len(order.lines) = 2
  /\ order.lines[1] = [item |-> 1, quantity |-> 3]
  /\ order.lines[2] = [item |-> 1, quantity |-> 17]
  /\ menu[1].qty = 0

(* C3. Cancelled-order exclusion: an order that ends the selection flow    *)
(* with zero lines is not appended to allOrders and does not increment     *)
(* customersServed; an order is appended and counted exactly when its flow *)
(* ends with at least one line.                                            *)
C3_CancelledExclusion ==
  [][IF EndStep /\ order.lines # << >>
     THEN /\ allOrders' = Append(allOrders, order)
          /\ customersServed' = customersServed + 1
     ELSE /\ allOrders' = allOrders
          /\ customersServed' = customersServed]_vars

\* the second customer cancelled after the first was served
C3_Witness ==
  /\ out.msg = "Cancelled"
  /\ pc = "Next"
  /\ counter = 2
  /\ Len(allOrders) = 1
  /\ customersServed = 1

(* C4. Receipt uniqueness: the receipt identifiers of all orders in the    *)
(* history are pairwise distinct, whatever the clock reads at each         *)
(* generation.                                                             *)
C4_ReceiptsDistinct ==
  \A j, k \in DOMAIN allOrders :
    j # k => allOrders[j].receiptNo # allOrders[k].receiptNo

(* C5. Same-millisecond receipts: two orders whose receipt identifiers     *)
(* were generated at the same clock reading have distinct identifiers, and *)
(* the counter strictly increases on every generation.                     *)
C5_SameMillisDistinct ==
  /\ \A j, k \in DOMAIN allOrders :
       (j # k /\ allOrders[j].millis = allOrders[k].millis)
         => allOrders[j].receiptNo # allOrders[k].receiptNo
  /\ \A k \in DOMAIN allOrders :
       (allOrders[k].millis = order.millis /\ order.receiptNo # 0
        /\ allOrders[k] # order)
         => allOrders[k].receiptNo # order.receiptNo

C5_Witness ==
  /\ Len(allOrders) = 2
  /\ allOrders[1].millis = allOrders[2].millis

(* C6. Sold-out gating: for every category, isCategorySoldOut is true iff  *)
(* listAvailableInCategory returns the empty list, and the                 *)
(* 'available.empty()' fallback after the sold-out check is never taken.   *)
C6_SoldOutEquivalence ==
  /\ \A cat \in Categories \cup {""} :
       isCategorySoldOut(menu, cat) <=> (listAvailableInCategory(menu, cat) = << >>)
  /\ out.msg # "NoAvailableItems"

\* Desserts sold out, the other categories not
C6_Witness ==
  /\ isCategorySoldOut(menu, "Desserts")
  /\ listAvailableInCategory(menu, "Desserts") = << >>
  /\ ~ isCategorySoldOut(menu, "Beverages")

(* C7. A category whose items all have stock 0 never lets the flow enter   *)
(* item selection: choosing it returns to the category prompt with the     *)
(* catalog, the order's lines, the history and customersServed unchanged.  *)
C7_SoldOutCategoryRefused ==
  /\ [](pc \in {"Item", "Quantity"} => ~ AllZero(category))
  /\ [][\A n \in 1..4 :
          (ChooseCategory(Number(n)) /\ AllZero(CategoryOf(n)))
            => /\ pc' = "Category"
               /\ UNCHANGED << menu, order, allOrders, customersServed >>]_vars

\* Desserts was chosen when sold out
C7_Witness ==
  /\ out = Msg("SoldOut", 4)
  /\ pc = "Category"
  /\ AllZero("Desserts")

(* C8. Totals: the total printed on a receipt is the sum over the order's  *)
(* lines of quantity x unit price, and the total revenue of the summary is *)
(* the sum of the totals of all finalized orders.                          *)
C8_TotalsCorrect ==
  /\ out.msg = "Receipt" =>
       out.val = LineSum(allOrders[Len(allOrders)].lines)
  /\ \A k \in DOMAIN allOrders : total(allOrders[k]) = LineSum(allOrders[k].lines)
  /\ summary.printed => summary.totalRevenue = OrderSum(allOrders)

\* the summary of a day with two served customers
C8_Witness ==
  /\ summary.printed
  /\ Len(allOrders) = 2
  /\ summary.totalRevenue > 0

(* C9. Best seller: the summary reports the item with the highest sold     *)
(* count, the first in catalog order among equals, and "no sales" when     *)
(* every sold count is zero.                                               *)
C9_BestSeller ==
  summary.printed =>
    IF \A i \in Items : menu[i].sold = 0
    THEN summary.bestSeller = 0
    ELSE /\ summary.bestSeller \in Items
         /\ \A i \in Items : menu[i].sold <= menu[summary.bestSeller].sold
         /\ \A i \in Items : menu[i].sold = menu[summary.bestSeller].sold
                               => summary.bestSeller <= i

\* a summary with two items sharing the highest sold count
C9_Witness ==
  /\ summary.printed
  /\ menu[1].sold = 3
  /\ menu[4].sold = 3
  /\ \A i \in Items : menu[i].sold <= 3

(* C10. Commit effect and frame: an accepted quantity q for the chosen     *)
(* item appends exactly the line (item, q) at the end of the order, takes  *)
(* q from the item's stock and adds q to its sold count, and changes no    *)
(* other item, no earlier line, nor the history or customersServed; three  *)
(* Cappuccinos from stock 20 leave 17, sold 3, order total 420.            *)
C10_CommitEffect ==
  [][CommitStep =>
       LET q == out'.val
       IN  /\ q >= 1
           /\ order' = [order EXCEPT !.lines = Append(order.lines,
                                                [item |-> chosen, quantity |-> q])]
           /\ menu'[chosen].qty = menu[chosen].qty - q
           /\ menu'[chosen].sold = menu[chosen].sold + q
           /\ \A i \in Items \ {chosen} : menu'[i] = menu[i]
           /\ UNCHANGED << allOrders, customersServed >>
           /\ (chosen = 1 /\ q = 3 /\ menu[1].qty = 20 /\ order.lines = << >>)
                => /\ menu'[1] = [qty |-> 17, sold |-> 3]
                   /\ LineSum(order'.lines) = 420]_vars

\* three Cappuccinos as the first line of the first order
C10_Witness ==
  /\ out = Msg("Added", 3)
  /\ order.lines = << [item |-> 1, quantity |-> 3] >>
  /\ menu[1] = [qty |-> 17, sold |-> 3]
  /\ total(order) = 420

\* the spellings readYesNo takes for yes and for no
YesWords == {"y", "Y", "yes", "Yes", "YES"}

NoWords == {"n", "N", "no", "No", "NO"}

\* a numeric line outside lo..hi, or a line that is no number
BadInt(line, lo, hi) == ~ line.num \/ line.x < lo \/ line.x > hi

\* a name line with nothing but whitespace
Blank(line) == \A k \in 1..Len(line) : line[k] \in WS

\* the input was refused: a message, the same prompt, nothing written
Rejected ==
  /\ pc' = pc
  /\ out'.msg \in {"InvalidNumber", "OutOfRange", "AnswerYN", "NameEmpty"}
  /\ UNCHANGED << menu, order, allOrders, customersServed, counter, summary >>

(* C11. Malformed input is recoverable: at every prompt a line that is not *)
(* a number, a number out of range (for the quantity: 0, negative, or more *)
(* than the remaining stock), a word that is neither yes nor no, or an     *)
(* empty name is refused with a message, the same prompt is asked again,   *)
(* and the catalog, the order, the history and customersServed are         *)
(* unchanged; the session does not end.                                    *)
C11_MalformedInputRejected ==
  [][/\ pc = "Name" =>
          \A l \in NameLines : (Blank(l) /\ EnterName(l)) => Rejected
     /\ pc = "Category" =>
          \A l \in CategoryLines : (BadInt(l, 0, 4) /\ ChooseCategory(l)) => Rejected
     /\ pc = "Item" =>
          \A l \in ItemLines(Len(available)) :
             (BadInt(l, 0, Len(available)) /\ ChooseItem(l)) => Rejected
     /\ pc = "Quantity" =>
          \A l \in QuantityLines(menu[chosen].qty) :
             (BadInt(l, 1, menu[chosen].qty) /\ EnterQuantity(l)) => Rejected
     /\ pc \in {"Dine", "AddMore", "Continue", "Next"} =>
          \A w \in YesNoLines \ (YesWords \cup NoWords) :
             (AnswerDine(w) \/ AnswerAddMore(w) \/ AnswerContinue(w) \/ AnswerNext(w))
               => Rejected]_vars

\* more than the remaining stock was asked for, after a first line
C11_Witness ==
  /\ pc = "Quantity"
  /\ out.msg = "OutOfRange"
  /\ Len(order.lines) = 1
  /\ ~ eof

(* C12. Termination path: the summary is printed and the program ends only *)
(* on a no to "Serve next customer?"; that prompt follows every customer,  *)
(* served or cancelled, and a new customer starts only from it.            *)
C12_TerminationPath ==
  /\ [](summary.printed <=> pc = "Done")
  /\ [][/\ (pc # "Done" /\ pc' = "Done") =>
             (pc = "Next" /\ \E w \in NoWords \cap YesNoLines : AnswerNext(w))
        /\ (pc \in {"Category", "Item", "Quantity", "AddMore", "Continue"}
            /\ pc' \notin {"Category", "Item", "Quantity", "AddMore", "Continue"})
             => pc' = "Next"
        /\ (pc # "NewCustomer" /\ pc' = "NewCustomer") => pc = "Next"
        /\ pc = "Done" => UNCHANGED vars]_vars

\* the day ended after a served and a cancelled customer
C12_Witness ==
  /\ pc = "Done"
  /\ summary.printed
  /\ counter = 2
  /\ customersServed = 1

(* C13. Selection-flow terminals: a customer's selection ends only by      *)
(* category 0 or by no to "Add more items?" followed by no to "Continue    *)
(* ordering?"; yes to either question, item 0 and a sold-out category go   *)
(* back to the category prompt; the quantity prompt is left only by        *)
(* committing a line.                                                      *)
C13_SelectionTerminals ==
  [][/\ (pc # "Next" /\ pc' = "Next") =>
          \/ pc = "Category" /\ ChooseCategory(Number(0))
          \/ pc = "Continue" /\ \E w \in NoWords \cap YesNoLines : AnswerContinue(w)
     /\ (pc # "Continue" /\ pc' = "Continue") =>
          (pc = "AddMore" /\ \E w \in NoWords \cap YesNoLines : AnswerAddMore(w))
     /\ pc \in {"AddMore", "Continue"} =>
          \A w \in YesWords \cap YesNoLines :
             (AnswerAddMore(w) \/ AnswerContinue(w)) => pc' = "Category"
     /\ pc = "Item" => (ChooseItem(Number(0)) => pc' = "Category")
     /\ pc = "Category" =>
          \A n \in 1..4 : (AllZero(CategoryOf(n)) /\ ChooseCategory(Number(n)))
                            => pc' = "Category"
     /\ pc = "Quantity" =>
          \/ pc' = "Quantity" /\ UNCHANGED << menu, order >>
          \/ pc' = "AddMore" /\ Len(order'.lines) = Len(order.lines) + 1]_vars

\* back at the category prompt after a yes, with a line in the order
C13_Witness ==
  /\ pc = "Category"
  /\ out = Msg("Categories", 0)
  /\ Len(order.lines) = 1
  /\ ~ eof

(* C14. Receipt identifier at finalization: an order has a receipt         *)
(* identifier only if it has at least one line, and the receipt counter    *)
(* counts the finalized orders only (a cancelled order does not advance    *)
(* it).                                                                    *)
C14_AssignedAtFinalization ==
  /\ order.receiptNo # 0 => order.lines # << >>
  /\ pc = "Next" => counter = Len(allOrders)

(* C14, as the program has it.  Every order is given its receipt           *)
(* identifier when it is constructed, before the name prompt and before    *)
(* any line; the counter advances once per customer started, cancelled or  *)
(* not; the identifier is not changed afterwards, and an order appended to *)
(* the history has at least one line and carries that identifier.          *)
C14_AssignedAtConstruction ==
  /\ [](pc \in Prompts =>
          order.receiptNo = (order.millis % RECEIPT_MOD) + counter)
  /\ [](Len(allOrders) <= counter)
  /\ [][/\ counter' # counter =>
             /\ pc = "NewCustomer" /\ pc' = "Name"
             /\ counter' = counter + 1
             /\ order'.lines = << >>
             /\ order'.receiptNo >= 1
        /\ (pc \in Prompts /\ pc' \in Prompts) => order'.receiptNo = order.receiptNo
        /\ allOrders' # allOrders =>
             /\ allOrders' = Append(allOrders, order)
             /\ order.lines # << >>]_vars

\* the first customer cancelled, so the first receipt in the history has
\* the counter value 2
C14_Witness ==
  /\ Len(allOrders) = 1
  /\ counter = 2
  /\ allOrders[1].receiptNo = (allOrders[1].millis % RECEIPT_MOD) + 2

(* C15. Monotonic stock: in every step each item's remaining stock does    *)
(* not increase and its sold count does not decrease; a category that is   *)
(* sold out stays sold out.                                                *)
C15_MonotonicStock ==
  [][/\ \A i \in Items : /\ menu'[i].qty <= menu[i].qty
                         /\ menu'[i].sold >= menu[i].sold
     /\ \A cat \in Categories :
          isCategorySoldOut(menu, cat) => isCategorySoldOut(menu', cat)]_vars

\* Desserts sold out by an order that has since been finalized
C15_Witness ==
  /\ isCategorySoldOut(menu, "Desserts")
  /\ pc = "Next"
  /\ Len(allOrders) = 1
  /\ ~ eof

(* C16. End-of-input: once standard input is at its end the active prompt  *)
(* retries the read for ever; the program stays at that prompt, never      *)
(* prints the summary, and never again changes the catalog, the order, the *)
(* history or customersServed.                                             *)
C16_EndOfInput ==
  /\ [](eof => (pc \in Prompts /\ ~ summary.printed /\ ENABLED ReadEOF))
  /\ [][eof => /\ eof'
               /\ pc' = pc
               /\ UNCHANGED << menu, order, allOrders, customersServed,
                               counter, summary >>]_vars

\* end-of-input at the quantity prompt, with a line already in the order
C16_Witness ==
  /\ eof
  /\ pc = "Quantity"
  /\ Len(order.lines) = 1

\* the quantity of item i on a sequence of order lines
RECURSIVE QtyOn(_, _)
QtyOn(lines, i) ==
  IF lines = << >> THEN 0
  ELSE (IF lines[1].item = i THEN lines[1].quantity ELSE 0) + QtyOn(Tail(lines), i)

\* the quantity of item i on all receipts
RECURSIVE Receipted(_, _)
Receipted(orders, i) ==
  IF orders = << >> THEN 0
  ELSE QtyOn(orders[1].lines, i) + Receipted(Tail(orders), i)

RECURSIVE SumOver(_, _)
SumOver(f, S) ==
  IF S = {} THEN 0
  ELSE LET i == CHOOSE j \in S : TRUE IN f[i] + SumOver(f, S \ {i})

\* an order is being taken
InProgress ==
  pc \in {"Name", "Dine", "Category", "Item", "Quantity", "AddMore", "Continue"}

(* C17. Sales and orders agree: for every item the sold count is the       *)
(* quantity of that item on all receipts, plus, while an order is being    *)
(* taken, the quantity on that order's own lines; the summary's total of   *)
(* items sold is the total quantity on all receipts and its revenue is the *)
(* sum over the items of sold x price; an order that holds lines is        *)
(* appended to the history when its flow ends.                             *)
C17_AccountingAgrees ==
  /\ [](\A i \in Items :
          menu[i].sold = Receipted(allOrders, i)
                         + (IF InProgress THEN QtyOn(order.lines, i) ELSE 0))
  /\ [](summary.printed =>
          /\ summary.totalItemsSold
               = SumOver([i \in Items |-> Receipted(allOrders, i)], Items)
          /\ summary.totalRevenue
               = SumOver([i \in Items |-> menu[i].sold * Catalog[i].price], Items))
  /\ [][(EndStep /\ order.lines # << >>) =>
          allOrders' = Append(allOrders, order)]_vars

\* the summary of a day with two receipts
C17_Witness ==
  /\ summary.printed
  /\ Len(allOrders) = 2
  /\ summary.totalItemsSold >= 2

(* C18. The history is well formed: customersServed is the number of       *)
(* orders in allOrders, and every one of them has at least one line, a     *)
(* non-empty name without surrounding whitespace, the dine option Eat-In   *)
(* or Take-Out, and only lines of quantity at least 1.                     *)
C18_HistoryWellFormed ==
  /\ customersServed = Len(allOrders)
  /\ \A k \in 1..Len(allOrders) :
       LET o == allOrders[k]
       IN  /\ Len(o.lines) >= 1
           /\ Len(o.customerName) >= 1
           /\ o.customerName[1] \notin WS
           /\ o.customerName[Len(o.customerName)] \notin WS
           /\ o.dineOption \in {"Eat-In", "Take-Out"}
           /\ \A j \in 1..Len(o.lines) : o.lines[j].quantity >= 1

\* two receipts, one to eat in and one to take out
C18_Witness ==
  /\ Len(allOrders) = 2
  /\ allOrders[1].dineOption # allOrders[2].dineOption
  /\ customersServed = 2

(* C19. Every bounded prompt can be answered and every index is in bounds: *)
(* the item prompt is reached only with a non-empty list of items in       *)
(* stock, an accepted item number indexes that list, the quantity prompt   *)
(* is reached only for an item with stock at least 1, and at each of the   *)
(* three prompts some line is accepted.                                    *)
C19_PromptsSatisfiable ==
  /\ [](pc = "Category" =>
          \E line \in CategoryLines : readIntInRange(line, 0, 4) = "ok")
  /\ [](pc = "Item" =>
          /\ Len(available) >= 1
          /\ \A k \in 1..Len(available) :
               /\ available[k] \in Items
               /\ Catalog[available[k]].category = category
               /\ menu[available[k]].qty >= 1
          /\ \E line \in ItemLines(Len(available)) :
               readIntInRange(line, 0, Len(available)) = "ok")
  /\ [](pc = "Quantity" =>
          /\ chosen \in Items
          /\ menu[chosen].qty >= 1
          /\ \E line \in QuantityLines(menu[chosen].qty) :
               readIntInRange(line, 1, menu[chosen].qty) = "ok")
  /\ [][(pc = "Item" /\ pc' = "Quantity") =>
          \E i \in 1..Len(available) : chosen' = available[i]]_vars

\* the item prompt for a category with a single item left in stock
C19_Witness ==
  /\ pc = "Item"
  /\ Len(available) = 1
  /\ ~ eof

\* every item has no stock left
AllOut == \A i \in Items : menu[i].qty = 0

TotalSold == SumOver([i \in Items |-> menu[i].sold], Items)

InitialStock == SumOver([i \in Items |-> InitialMenu[i].qty], Items)

\* what holds of the stock, the categories and new lines once all is sold
SoldOutForGood ==
  /\ [](customersServed <= TotalSold /\ TotalSold <= InitialStock)
  /\ [](InitialStock = 13 * 20)
  /\ [](AllOut => \A cat \in Categories : isCategorySoldOut(menu, cat))
  /\ [][AllOut => (~ CommitStep /\ menu' = menu /\ pc' # "Item")]_vars
  /\ [][(AllOut /\ pc = "NewCustomer") => order'.lines = << >>]_vars
  /\ [][(AllOut /\ EndStep /\ order.lines = << >>) => out' = Msg("Cancelled", 0)]_vars

(* C20. Sales are bounded by stock: customersServed <= total units sold    *)
(* <= 260; once every item's stock is 0 all four categories are sold out,  *)
(* no line can be added, every later customer's order is cancelled, and    *)
(* from then on customersServed and the order history do not change.       *)
C20_ConstantOnceSoldOut ==
  /\ SoldOutForGood
  /\ [][AllOut => UNCHANGED << allOrders, customersServed >>]_vars

(* C20, as the program has it.  As above, but customersServed and the      *)
(* history change once more after the stock reached 0 when the order that  *)
(* took the last unit is finalized; they are constant from then on, that   *)
(* is in every step taken with all stock at 0 and no line on the order at  *)
(* hand or no order being taken.                                           *)
C20_SalesBoundedByStock ==
  /\ SoldOutForGood
  /\ [][(AllOut /\ EndStep /\ order.lines # << >>) =>
          /\ allOrders' = Append(allOrders, order)
          /\ customersServed' = customersServed + 1]_vars
  /\ [][(AllOut /\ (order.lines = << >> \/ ~ InProgress)) =>
          UNCHANGED << allOrders, customersServed >>]_vars

\* everything is sold and the customer who came next has been turned away
C20_Witness ==
  /\ AllOut
  /\ counter = 2
  /\ pc = "Next"
  /\ out = Msg("Cancelled", 0)
  /\ Len(allOrders) = 1
  /\ TotalSold = 260

====
